---- MODULE Spec2Model ----
(***************************************************************************)
(* The NDI audio source element of src/src/ndiaudiosrc.rs: the per-element *)
(* Settings, State and TimestampData, the process-wide receiver table, and *)
(* the handlers start, stop, set_caps, fixate, change_state, query,        *)
(* set_property, get_property and create.                                  *)
(*                                                                         *)
(* Spec      the streaming life of one element beside a sibling element:   *)
(*           a handler is one step, and a handler with a capture loop is   *)
(*           one step up to the loop and one step for each capture call.   *)
(* ConnSpec  the property and connection handlers of both elements.        *)
(* LockSpec  the handlers cut at every lock acquisition and at every SDK   *)
(*           capture call, run by an application thread and a streaming    *)
(*           thread.                                                       *)
(***************************************************************************)
EXTENDS Integers, Sequences, FiniteSets

\* ------------------------------------------------------------ bounds
MaxTs == 2          \* frame timestamps are 0..MaxTs (100 ns ticks)
MaxSamples == 2     \* an audio frame carries 1..MaxSamples samples
MaxThreshold == 2   \* loss-threshold values that set_property is given
MaxOffset == 2      \* create emits real buffers while offset <= MaxOffset
MaxClock == 1       \* running time read for ndi_struct.start_pts

\* ------------------------------------------------------------ constants
SECOND == 1000000000   \* gst::SECOND, in nanoseconds
TicksToNs == 100       \* one NDI tick is 100 ns
BytesPerSample == 2    \* the size in bytes of an i16
\* The property's range 0..200000 (default 40000) is scaled to 0..MaxThreshold;
\* the default keeps its place inside the range, above every small value.
DefaultLossThreshold == MaxThreshold

Adapters == {"a1", "a2"}
\* The element followed through its whole life, and the sibling element that
\* shares the receiver table with it (the elements run the same code: what
\* holds of one holds of the other).
Watched == "a1"
Sibling == "a2"
Threads == {"app", "streaming"}
Ips == {"", "10.0.0.1:5961"}
StreamNames == {"Fixed ndi stream name", "cam"}
FrameKinds == {"audio", "video", "metadata", "none", "error"}
SampleRates == {3}
Channels == {2}

NoLatency == -1
NoReceiver == 0

VARIABLES
    settings,        \* settings[a]: Settings of element a
    info,            \* info[a]: State.info is Some
    timestamp_data,  \* timestamp_data[a]: TimestampData of element a
    receivers,       \* hashmap_receivers: id -> entry
    start_pts,       \* ndi_struct.start_pts
    host,            \* host[a]: whether the base class has element a started
    last,            \* the last handler call, what it was given and returned
    active,          \* the handler call that is inside a capture loop
    run,             \* the run of lost polls the watched element is in
    prev_buffer,     \* the watched element's last real buffer since start
    lock_owner,      \* lock_owner[l]: the thread holding mutex l
    thread           \* thread[t]: the handler thread t is inside

vars == <<settings, info, timestamp_data, receivers, start_pts,
          host, last, active, run, prev_buffer, lock_owner, thread>>

lockVars == <<lock_owner, thread>>

\* ------------------------------------------------------------ values
\* What NDIlib_recv_capture_v2 can hand back: an audio frame with its fields, or
\* a frame type that fills nothing of the audio frame in.
AudioFrames ==
    [kind : {"audio"}, timestamp : 0..MaxTs, no_samples : 1..MaxSamples,
     sample_rate : SampleRates, no_channels : Channels]
OtherFrames ==
    [kind : FrameKinds \ {"audio"}, timestamp : {0}, no_samples : {0},
     sample_rate : SampleRates, no_channels : Channels]
Frames == AudioFrames \cup OtherFrames

\* NDIlib_audio_frame_v2_t::default(): no samples, no timestamp.
DefaultAudioFrame ==
    [kind |-> "audio", timestamp |-> 0, no_samples |-> 0,
     sample_rate |-> CHOOSE r \in SampleRates : TRUE,
     no_channels |-> CHOOSE c \in Channels : TRUE]

\* The audio_frame local after a capture call that returned frame: the SDK
\* writes it only when it returns an audio frame.
Capture(audio_frame, frame) ==
    IF frame.kind = "audio" THEN frame ELSE audio_frame

\* gst::SECOND.mul_div_floor(val, den): floor(SECOND * val / den), computed
\* without an intermediate above SECOND * val / den.
MulDivFloor(val, den) ==
    (SECOND \div den) * val + ((SECOND % den) * val) \div den

DefaultSettings ==
    [stream_name |-> "Fixed ndi stream name", ip |-> "",
     loss_threshold |-> DefaultLossThreshold, id_receiver |-> NoReceiver,
     latency |-> NoLatency]

NoBuffer == [kind |-> "none"]
NoRun == [len |-> 0, empties |-> 0]
FailedRun == [len |-> -1, empties |-> 0]
NoCall == [op |-> "none"]
NoActive == [op |-> "none"]

Locks == ({"settings", "state", "timestamp_data"} \X Adapters)
            \cup {<<"hashmap_receivers", "global">>}
RegistryLock == <<"hashmap_receivers", "global">>
Idle == [op |-> "idle"]

Init ==
    /\ settings = [a \in Adapters |-> DefaultSettings]
    /\ info = [a \in Adapters |-> FALSE]
    /\ timestamp_data = [a \in Adapters |-> [offset |-> 0, count_frame_none |-> 0]]
    /\ receivers = <<>>
    /\ start_pts = 0
    /\ host = [a \in Adapters |-> "stopped"]
    /\ last = NoCall
    /\ active = NoActive
    /\ run = NoRun
    /\ prev_buffer = NoBuffer
    /\ lock_owner = [l \in Locks |-> "free"]
    /\ thread = [t \in Threads |-> Idle]

\* ------------------------------------------------------------ the receiver table
\* connect_ndi and stop_ndi live outside this file; they are modelled from the
\* contract of the connection manager.
Matching(regs, ip, stream_name) ==
    {id \in DOMAIN regs : regs[id].ip = ip /\ regs[id].stream_name = stream_name}

NewEntry(ip, stream_name) ==
    [ip |-> ip, stream_name |-> stream_name, initial_timestamp |-> 0,
     reference_count |-> 1]

\* A freshly allocated id: the least id no entry has.
FreshId(regs) ==
    CHOOSE id \in 1..(Cardinality(DOMAIN regs) + 1) :
        /\ id \notin DOMAIN regs
        /\ \A j \in 1..(id - 1) : j \in DOMAIN regs

\* connect(ip, stream_name) -> [id, receivers, opened]; sdk_ok is whether the
\* SDK can establish a connection should one be needed.
Connect(regs, ip, stream_name, sdk_ok) ==
    LET m == Matching(regs, ip, stream_name)
    IN  IF m # {}
        THEN LET id == CHOOSE i \in m : TRUE
             IN  [id |-> id,
                  receivers |-> [regs EXCEPT ![id].reference_count = @ + 1],
                  opened |-> FALSE]
        ELSE IF ~sdk_ok
        THEN [id |-> NoReceiver, receivers |-> regs, opened |-> FALSE]
        ELSE LET id == FreshId(regs)
             IN  [id |-> id,
                  receivers |-> [i \in DOMAIN regs \cup {id} |->
                                   IF i = id THEN NewEntry(ip, stream_name)
                                   ELSE regs[i]],
                  opened |-> TRUE]

\* disconnect(receiver_id) -> receivers
Disconnect(regs, id) ==
    IF id \notin DOMAIN regs THEN regs
    ELSE IF regs[id].reference_count > 1
    THEN [regs EXCEPT ![id].reference_count = @ - 1]
    ELSE [i \in DOMAIN regs \ {id} |-> regs[i]]

\* ------------------------------------------------------------ locks
\* The mutexes a handler call holds while it is inside its capture loop:
\* create took settings, timestamp_data, state and hashmap_receivers; fixate
\* and change_state took hashmap_receivers and settings.
HeldBy(call) ==
    IF call.op = "none" THEN {}
    ELSE IF call.op = "create"
    THEN {<<"settings", call.a>>, <<"timestamp_data", call.a>>,
          <<"state", call.a>>, RegistryLock}
    ELSE {RegistryLock, <<"settings", call.a>>}

\* A handler that needs these mutexes runs once no capture loop holds one.
Free(locks) == locks \cap HeldBy(active) = {}

\* ------------------------------------------------------------ history
\* The place in its run of a create call that ends in a lost poll: the run is
\* the consecutive calls that ended in a lost poll since a call that found
\* count_frame_none = 0 (0: no such run).
NthOfRun(r, count_before) ==
    IF r = FailedRun THEN 0
    ELSE IF count_before = 0 THEN 1
    ELSE IF r.len > 0 THEN r.len + 1
    ELSE 0

\* The run after a turn; empties counts the run's zero-length buffers, and
\* FailedRun stands from a fatal error to the next start.
RunAfter(r, count_before, outcome) ==
    LET nth == NthOfRun(r, count_before)
    IN  IF r = FailedRun \/ outcome = "fatal" THEN FailedRun
        ELSE IF outcome = "skip" THEN r
        ELSE IF outcome = "accept" THEN NoRun
        ELSE [len |-> nth,
              empties |-> IF nth = 0 THEN 0
                          ELSE IF nth = 1 THEN 1 ELSE r.empties + 1]

\* The run after a call that made no capture call, or after set_property.
RunBroken(r) == IF r = FailedRun THEN r ELSE NoRun

\* What is kept of a real buffer for the next one to be compared with.
Kept(buffer) ==
    [kind |-> "real", pts |-> buffer.pts, offset_end |-> buffer.offset_end,
     timestamp |-> buffer.timestamp, time |-> buffer.time]

\* ------------------------------------------------------------ properties
\* set_property, one action for each property it matches.
SetProperty(a, prop, value) ==
    /\ Free({<<"settings", a>>})
    /\ settings' = [settings EXCEPT ![a][prop] = value]
    /\ last' = [op |-> "set_property", a |-> a, prop |-> prop]
    /\ run' = IF a = Watched THEN RunBroken(run) ELSE run
    /\ UNCHANGED <<info, timestamp_data, receivers, start_pts, host, active,
                   prev_buffer>>
    /\ UNCHANGED lockVars

SetStreamName(a) == \E v \in StreamNames : SetProperty(a, "stream_name", v)
SetIp(a) == \E v \in Ips : SetProperty(a, "ip", v)
SetLossThreshold(a) ==
    \E v \in 0..MaxThreshold : SetProperty(a, "loss_threshold", v)

GetProperty(a) ==
    /\ Free({<<"settings", a>>})
    /\ \E prop \in {"stream_name", "ip", "loss_threshold"} :
         last' = [op |-> "get_property", a |-> a, prop |-> prop,
                  value |-> settings[a][prop]]
    /\ UNCHANGED <<settings, info, timestamp_data, receivers, start_pts, host,
                   active, run, prev_buffer>>
    /\ UNCHANGED lockVars

\* ------------------------------------------------------------ start, stop
\* A start or stop that leaves State as it finds it.
StateAfterClearKept(had_info) == had_info
\* *self.state.lock().unwrap() = Default::default(): info is None
StateAfterClear(had_info) == FALSE
\* settings.id_receiver = connect_ndi(...)
StartIdReceiver(old, id) == id
\* A start that returns true whatever connect_ndi returned.
StartResultTrue(id) == TRUE
\* settings.id_receiver != 0
StartResult(id) == id # NoReceiver
\* A stop that hands stop_ndi no receiver of its own.
StopIdReceiverNone(s) == NoReceiver
\* the id stop hands to stop_ndi
StopIdReceiver(s) == s.id_receiver

\* The base class starts an element that is not started, and has it started
\* when start returned true.
Start(a) ==
    /\ host[a] = "stopped"
    /\ Free({<<"state", a>>, <<"settings", a>>, RegistryLock})
    /\ \E sdk_ok \in BOOLEAN :
         LET s == settings[a]
             c == Connect(receivers, s.ip, s.stream_name, sdk_ok)
             id == StartIdReceiver(s.id_receiver, c.id)
         IN  /\ info' = [info EXCEPT ![a] = StateAfterClear(@)]
             /\ settings' = [settings EXCEPT ![a].id_receiver = id]
             /\ receivers' = c.receivers
             /\ host' = [host EXCEPT ![a] =
                           IF StartResult(id) THEN "started" ELSE "stopped"]
             /\ last' = [op |-> "start", a |-> a, result |-> StartResult(id),
                         id |-> c.id, opened |-> c.opened,
                         existed |-> Matching(receivers, s.ip, s.stream_name) # {}]
    /\ run' = IF a = Watched THEN NoRun ELSE run
    /\ prev_buffer' = IF a = Watched THEN NoBuffer ELSE prev_buffer
    /\ UNCHANGED <<timestamp_data, start_pts, active>>
    /\ UNCHANGED lockVars

\* stop, whoever calls it.
StopCall(a) ==
    /\ Free({<<"state", a>>, <<"settings", a>>, RegistryLock})
    /\ info' = [info EXCEPT ![a] = StateAfterClear(@)]
    /\ receivers' = Disconnect(receivers, StopIdReceiver(settings[a]))
    /\ host' = [host EXCEPT ![a] = "stopped"]
    /\ last' = [op |-> "stop", a |-> a, result |-> TRUE,
                id |-> settings[a].id_receiver]
    /\ run' = IF a = Watched THEN NoRun ELSE run
    /\ prev_buffer' = IF a = Watched THEN NoBuffer ELSE prev_buffer
    /\ UNCHANGED <<settings, timestamp_data, start_pts, active>>
    /\ UNCHANGED lockVars

\* The base class stops an element that is started.
Stop(a) == host[a] = "started" /\ StopCall(a)

\* stop called again on an element that is stopped.
StopAgain(a) == host[a] = "stopped" /\ StopCall(a)

\* ------------------------------------------------------------ negotiation
\* A latency rounded up to the next nanosecond.
FixateLatencyRoundedUp(audio_frame) ==
    MulDivFloor(audio_frame.no_samples, audio_frame.sample_rate) + 1
\* settings.latency = gst::SECOND.mul_div_floor(no_samples, audio_rate)
FixateLatency(audio_frame) ==
    MulDivFloor(audio_frame.no_samples, audio_frame.sample_rate)

\* The base class negotiates (fixate, then set_caps) on a started element.
\* fixate up to its capture loop.
Fixate(a) ==
    /\ host[a] = "started"
    /\ Free({RegistryLock, <<"settings", a>>})
    /\ settings[a].id_receiver \in DOMAIN receivers
    /\ active' = [op |-> "fixate", a |-> a, audio_frame |-> DefaultAudioFrame]
    /\ last' = [op |-> "fixate", a |-> a, result |-> "polling"]
    /\ UNCHANGED <<settings, info, timestamp_data, receivers, start_pts, host,
                   run, prev_buffer>>
    /\ UNCHANGED lockVars

\* One capture call of fixate's loop, and the rest of fixate once the call
\* returned an audio frame; the call returns one of frames.
FixatePollFrom(a, frames) ==
    /\ active.op = "fixate" /\ active.a = a
    /\ \E frame \in frames :
         LET audio_frame == Capture(active.audio_frame, frame)
         IN  IF frame.kind # "audio"
             THEN /\ active' = [active EXCEPT !.audio_frame = audio_frame]
                  /\ last' = [op |-> "fixate", a |-> a, result |-> "polling",
                              frame |-> frame]
                  /\ UNCHANGED settings
             ELSE /\ active' = NoActive
                  /\ settings' = [settings EXCEPT ![a].latency =
                                    FixateLatency(audio_frame)]
                  /\ last' = [op |-> "fixate", a |-> a, result |-> "fixed",
                              frame |-> frame,
                              rate |-> audio_frame.sample_rate,
                              channels |-> audio_frame.no_channels]
    /\ UNCHANGED <<info, timestamp_data, receivers, start_pts, host, run,
                   prev_buffer>>
    /\ UNCHANGED lockVars

FixatePoll(a) == FixatePollFrom(a, Frames)

\* Audio frames of more formats than create is given: mono and stereo, at
\* rates that divide a second and rates that do not.
FormatFrames ==
    [kind : {"audio"}, timestamp : {1}, no_samples : 1..MaxSamples,
     sample_rate : {2, 3, 7, 48000}, no_channels : {1, 2}]

FixatePollFormats(a) ==
    FixatePollFrom(a, FormatFrames \cup OtherFrames)

\* The base class sets the caps that fixate returned.
SetCaps(a) ==
    /\ host[a] = "started"
    /\ settings[a].latency # NoLatency
    /\ Free({<<"state", a>>})
    /\ \E parsed \in BOOLEAN :
         /\ info' = [info EXCEPT ![a] = IF parsed THEN TRUE ELSE @]
         /\ last' = [op |-> "set_caps", a |-> a, result |-> parsed]
    /\ UNCHANGED <<settings, timestamp_data, receivers, start_pts, host, active,
                   run, prev_buffer>>
    /\ UNCHANGED lockVars

\* QueryView::Latency
Query(a) ==
    /\ Free({<<"settings", a>>, <<"state", a>>})
    /\ info[a] => settings[a].latency # NoLatency
    /\ last' = [op |-> "query", a |-> a, result |-> info[a],
                latency |-> IF info[a] THEN settings[a].latency ELSE NoLatency]
    /\ UNCHANGED <<settings, info, timestamp_data, receivers, start_pts, host,
                   active, run, prev_buffer>>
    /\ UNCHANGED lockVars

\* ------------------------------------------------------------ change_state
\* receiver.initial_timestamp after the PausedToPlaying capture
EpochAfterCapture(initial_timestamp, timestamp) ==
    IF initial_timestamp <= timestamp \/ initial_timestamp = 0
    THEN timestamp
    ELSE initial_timestamp

\* change_state(PausedToPlaying) up to its capture loop.
ChangeState(a) ==
    /\ host[a] = "started"
    /\ Free({RegistryLock, <<"settings", a>>})
    /\ settings[a].id_receiver \in DOMAIN receivers
    /\ active' = [op |-> "change_state", a |-> a,
                  audio_frame |-> DefaultAudioFrame]
    /\ last' = [op |-> "change_state", a |-> a, result |-> "polling"]
    /\ UNCHANGED <<settings, info, timestamp_data, receivers, start_pts, host,
                   run, prev_buffer>>
    /\ UNCHANGED lockVars

\* One capture call of change_state's loop, and the epoch update once the call
\* returned an audio frame.
ChangeStatePoll(a) ==
    /\ active.op = "change_state" /\ active.a = a
    /\ \E frame \in Frames :
         LET audio_frame == Capture(active.audio_frame, frame)
             id == settings[a].id_receiver
         IN  IF frame.kind # "audio"
             THEN /\ active' = [active EXCEPT !.audio_frame = audio_frame]
                  /\ last' = [op |-> "change_state", a |-> a,
                              result |-> "polling", frame |-> frame]
                  /\ UNCHANGED receivers
             ELSE /\ active' = NoActive
                  /\ receivers' = [receivers EXCEPT ![id].initial_timestamp =
                                     EpochAfterCapture(@, audio_frame.timestamp)]
                  /\ last' = [op |-> "change_state", a |-> a, result |-> "set",
                              frame |-> frame, id |-> id,
                              before |-> receivers[id].initial_timestamp]
    /\ UNCHANGED <<settings, info, timestamp_data, start_pts, host, run,
                   prev_buffer>>
    /\ UNCHANGED lockVars

\* ------------------------------------------------------------ create
\* A test that tolerates one loss more than the threshold.
LossToleratedInclusive(count_frame_none, loss_threshold) ==
    count_frame_none <= loss_threshold
\* count_frame_none < loss_threshold
LossTolerated(count_frame_none, loss_threshold) ==
    count_frame_none < loss_threshold

\* A comparison that lets a frame stamped at the epoch through.
SkipFrameStrict(time, timestamp) == time > timestamp
\* time >= audio_frame.timestamp
SkipFrame(time, timestamp) == time >= timestamp

\* A loop that counts a none frame against the threshold even when it is 0.
PollOutcomeCounting(frame_type, audio_frame, time, loss_threshold, count_frame_none) ==
    IF frame_type \in {"none", "error"}
    THEN IF LossTolerated(count_frame_none, loss_threshold)
         THEN "empty_counted"
         ELSE "fatal"
    ELSE IF SkipFrame(time, audio_frame.timestamp)
    THEN "skip"
    ELSE "accept"

\* A loop that takes whatever is not a lost poll for a frame to emit.
PollOutcomeUnfiltered(frame_type, audio_frame, time, loss_threshold, count_frame_none) ==
    IF (frame_type = "none" /\ loss_threshold # 0) \/ frame_type = "error"
    THEN IF LossTolerated(count_frame_none, loss_threshold)
         THEN "empty_counted"
         ELSE "fatal"
    ELSE IF frame_type = "none" /\ loss_threshold = 0
    THEN "empty"
    ELSE IF frame_type = "audio" /\ SkipFrame(time, audio_frame.timestamp)
    THEN "skip"
    ELSE "accept"

\* What one turn of the loop does with the frame type it polled.
PollOutcome(frame_type, audio_frame, time, loss_threshold, count_frame_none) ==
    IF (frame_type = "none" /\ loss_threshold # 0) \/ frame_type = "error"
    THEN IF LossTolerated(count_frame_none, loss_threshold)
         THEN "empty_counted"
         ELSE "fatal"
    ELSE IF frame_type = "none" /\ loss_threshold = 0
    THEN "empty"
    ELSE IF SkipFrame(time, audio_frame.timestamp)
    THEN "skip"
    ELSE "accept"

\* timestamp_data after a turn that skips its frame: nothing is written
SkipTimestampData(td) == td
\* timestamp_data.count_frame_none += 1
CountLoss(td) == [td EXCEPT !.count_frame_none = @ + 1]
\* An offset that advances in bytes instead of samples.
OffsetEndBytes(offset, audio_frame) ==
    offset + audio_frame.no_samples * BytesPerSample
\* timestamp_data.offset += no_samples
OffsetEnd(offset, audio_frame) == offset + audio_frame.no_samples
\* A buffer that leaves the loss count where it was.
CountAfterBufferKept(count_frame_none) == count_frame_none
\* timestamp_data.count_frame_none = 0
CountAfterBuffer(count_frame_none) == 0
AcceptTimestampData(td, audio_frame) ==
    [offset |-> OffsetEnd(td.offset, audio_frame),
     count_frame_none |-> CountAfterBuffer(td.count_frame_none)]

TimestampDataAfter(outcome, td, audio_frame) ==
    CASE outcome = "skip" -> SkipTimestampData(td)
      [] outcome = "empty_counted" -> CountLoss(td)
      [] outcome = "accept" -> AcceptTimestampData(td, audio_frame)
      [] OTHER -> td

\* A pts taken from the epoch's distance ahead of the frame.
BufferPtsSwapped(timestamp, time, start) ==
    (time - timestamp) * TicksToNs + start
\* A pts left in the source's ticks.
BufferPtsInTicks(timestamp, time, start) == (timestamp - time) + start
\* pts = audio_frame.timestamp - time; set_pts(pts * 100 + start_pts)
BufferPts(timestamp, time, start) == (timestamp - time) * TicksToNs + start

\* ((no_samples / sample_rate) * 1_000_000_000.0) as u64
BufferDuration(audio_frame) ==
    MulDivFloor(audio_frame.no_samples, audio_frame.sample_rate)

\* The buffer create builds from an accepted frame (timestamp and time: the
\* frame timestamp and the epoch it was stamped from).
BuildBuffer(audio_frame, time, start, td) ==
    [kind |-> "real",
     size |-> audio_frame.no_samples * BytesPerSample * audio_frame.no_channels,
     pts |-> BufferPts(audio_frame.timestamp, time, start),
     duration |-> BufferDuration(audio_frame),
     offset |-> td.offset,
     offset_end |-> OffsetEnd(td.offset, audio_frame),
     timestamp |-> audio_frame.timestamp,
     time |-> time]

CreateResult(outcome) ==
    CASE outcome = "accept" -> "buffer"
      [] outcome \in {"empty_counted", "empty"} -> "empty"
      [] outcome = "fatal" -> "fatal"
      [] outcome = "skip" -> "polling"

\* create up to its capture loop, whoever calls it: without caps it returns
\* NotNegotiated before it touches the receivers.
CreateCall(a) ==
    /\ \/ /\ ~info[a]
          /\ Free({<<"settings", a>>, <<"timestamp_data", a>>, <<"state", a>>})
          /\ last' = [op |-> "create", a |-> a, result |-> "not_negotiated"]
          /\ run' = IF a = Watched THEN RunBroken(run)
                    ELSE run
          /\ UNCHANGED active
       \/ /\ info[a]
          /\ Free({<<"settings", a>>, <<"timestamp_data", a>>, <<"state", a>>,
                   RegistryLock})
          /\ settings[a].id_receiver \in DOMAIN receivers
          /\ active' = [op |-> "create", a |-> a,
                        audio_frame |-> DefaultAudioFrame,
                        time |-> receivers[settings[a].id_receiver].initial_timestamp]
          /\ last' = [op |-> "create", a |-> a, result |-> "polling"]
          /\ UNCHANGED run
    /\ UNCHANGED <<settings, info, timestamp_data, receivers, start_pts, host,
                   prev_buffer>>
    /\ UNCHANGED lockVars

\* The base class asks a started element for buffers.
Create(a) == host[a] = "started" /\ CreateCall(a)

\* create called on an element that is not started.
CreateStopped(a) == host[a] = "stopped" /\ CreateCall(a)

\* One turn of create's loop: a capture call and what create does with it.
CreatePoll(a) ==
    /\ active.op = "create" /\ active.a = a
    /\ \E frame \in Frames, clock \in 0..MaxClock :
         LET td == timestamp_data[a]
             time == active.time
             loss_threshold == settings[a].loss_threshold
             audio_frame == Capture(active.audio_frame, frame)
             outcome == PollOutcome(frame.kind, audio_frame, time, loss_threshold,
                                    td.count_frame_none)
             start == IF start_pts = 0 THEN clock ELSE start_pts
             buffer == IF outcome = "accept"
                       THEN BuildBuffer(audio_frame, time, start, td)
                       ELSE NoBuffer
         IN  /\ outcome = "accept" =>
                  td.offset + audio_frame.no_samples <= MaxOffset
             /\ (outcome # "accept" \/ start_pts # 0) => clock = 0
             /\ timestamp_data' = [timestamp_data EXCEPT ![a] =
                                     TimestampDataAfter(outcome, td, audio_frame)]
             /\ start_pts' = IF outcome = "accept" THEN start ELSE start_pts
             /\ active' = IF outcome = "skip"
                          THEN [active EXCEPT !.audio_frame = audio_frame]
                          ELSE NoActive
             /\ run' = IF a = Watched
                       THEN RunAfter(run, td.count_frame_none, outcome)
                       ELSE run
             /\ prev_buffer' = IF a = Watched /\ outcome = "accept"
                               THEN Kept(buffer)
                               ELSE prev_buffer
             /\ last' = [op |-> "create", a |-> a,
                         result |-> CreateResult(outcome),
                         frame |-> frame, buffer |-> buffer,
                         run |-> run, prev |-> prev_buffer]
    /\ UNCHANGED <<settings, info, receivers, host>>
    /\ UNCHANGED lockVars

\* ------------------------------------------------------------ specification
\* Spec: the watched element is driven through its streaming life on the
\* stream it was constructed for; its sibling connects to the same stream,
\* goes to playing and disconnects beside it.
Next ==
    \/ \E a \in Adapters :
          \/ Start(a)
          \/ Stop(a)
          \/ ChangeState(a)
          \/ ChangeStatePoll(a)
    \/ SetLossThreshold(Watched)
    \/ Fixate(Watched)
    \/ FixatePoll(Watched)
    \/ SetCaps(Watched)
    \/ Query(Watched)
    \/ Create(Watched)
    \/ CreatePoll(Watched)

Spec == Init /\ [][Next]_vars

\* ConnSpec: both elements are given stream names and addresses, connect and
\* disconnect, in every order.
ConnNext ==
    \E a \in Adapters :
        \/ SetStreamName(a)
        \/ SetIp(a)
        \/ GetProperty(a)
        \/ Start(a)
        \/ Stop(a)

ConnSpec == Init /\ [][ConnNext]_vars

\* FormatSpec: the watched element is started, negotiates on frames of several
\* formats, is queried and stopped.
FormatNext ==
    \/ Start(Watched)
    \/ Stop(Watched)
    \/ Fixate(Watched)
    \/ FixatePollFormats(Watched)
    \/ SetCaps(Watched)
    \/ Query(Watched)

FormatSpec == Init /\ [][FormatNext]_vars

\* RepeatSpec: as ConnSpec, with stop and create also called on a stopped
\* element.
RepeatNext ==
    \/ ConnNext
    \/ \E a \in Adapters : StopAgain(a)
    \/ CreateStopped(Watched)

RepeatSpec == Init /\ [][RepeatNext]_vars

\* ------------------------------------------------------------ threads and locks
\* LockSpec keeps of a handler the mutexes it takes, in its order, its SDK
\* capture calls, what it does to State.info, and the receiver it connects
\* to; the frames and what is computed from them are Spec's matter.
\* The application thread changes the elements' states and properties and
\* queries them; the streaming thread is the watched element's task.
AppOps ==
    {"start", "stop", "change_state", "set_property", "get_property", "query"}
StreamingOps == {"fixate", "set_caps", "create"}

Acquire(kind, a) == [do |-> "lock", l |-> <<kind, a>>]
AcquireRegistry == [do |-> "lock", l |-> RegistryLock]
ReleaseStep(kind, a) == [do |-> "unlock", l |-> <<kind, a>>]
ReleaseRegistry == [do |-> "unlock", l |-> RegistryLock]
Do(what) == [do |-> what]

\* set_property and get_property: settings, in the arm of the property.
SetPropertyPlan(a) == <<Acquire("settings", a)>>
GetPropertyPlan(a) == <<Acquire("settings", a)>>

\* start: state for the one statement that clears it, then settings, held
\* over connect_ndi, which works on the table under the table's mutex.
StartPlan(a) ==
    <<Acquire("state", a), Do("clear_state"), ReleaseStep("state", a),
      Acquire("settings", a),
      AcquireRegistry, Do("connect_ndi"), ReleaseRegistry>>

\* stop: as start, over stop_ndi.
StopPlan(a) ==
    <<Acquire("state", a), Do("clear_state"), ReleaseStep("state", a),
      Acquire("settings", a),
      AcquireRegistry, Do("stop_ndi"), ReleaseRegistry>>

\* set_caps: the caps are parsed, then state.
SetCapsPlan(a) == <<Do("parse_caps"), Acquire("state", a), Do("set_info")>>

\* query(Latency): settings, then state.
QueryPlan(a) == <<Acquire("settings", a), Acquire("state", a)>>

\* fixate: hashmap_receivers, then settings, then the capture loop.
FixatePlan(a) == <<AcquireRegistry, Acquire("settings", a), Do("capture")>>

\* change_state(PausedToPlaying): hashmap_receivers, then settings, then the
\* capture loop.
ChangeStatePlan(a) ==
    <<AcquireRegistry, Acquire("settings", a), Do("capture")>>

\* create: settings, timestamp_data, state, the check of state.info,
\* hashmap_receivers, then the capture loop.
CreatePlan(a) ==
    <<Acquire("settings", a), Acquire("timestamp_data", a),
      Acquire("state", a), Do("check_info"), AcquireRegistry, Do("capture")>>

Plan(op, a) ==
    CASE op = "set_property" -> SetPropertyPlan(a)
      [] op = "get_property" -> GetPropertyPlan(a)
      [] op = "start" -> StartPlan(a)
      [] op = "stop" -> StopPlan(a)
      [] op = "set_caps" -> SetCapsPlan(a)
      [] op = "query" -> QueryPlan(a)
      [] op = "fixate" -> FixatePlan(a)
      [] op = "change_state" -> ChangeStatePlan(a)
      [] op = "create" -> CreatePlan(a)

Busy(t) == thread[t] # Idle
PlanOf(t) == Plan(thread[t].op, thread[t].a)
Returning(t) == Busy(t) /\ thread[t].pc > Len(PlanOf(t))
\* The step thread t is at.
At(t) ==
    IF Busy(t) /\ ~Returning(t) THEN PlanOf(t)[thread[t].pc] ELSE Do("nothing")
Inside(t, ops, a) == Busy(t) /\ thread[t].op \in ops /\ thread[t].a = a

Advance(t) == thread' = [thread EXCEPT ![t].pc = @ + 1]
LeaveEarly(t) == thread' = [thread EXCEPT ![t].pc = Len(PlanOf(t)) + 1]

dataVars == <<settings, info, timestamp_data, receivers, start_pts, host, last,
              active, run, prev_buffer>>

\* When the base class and the application make a call: start on a stopped
\* element; stop on a started element whose task has ended; the state change
\* to playing on a started element, whose task may be inside a call (the
\* base class does not wait for create to return when it pauses a live
\* source); the task's calls on a started element that is not being stopped.
CanCall(t, op, a) ==
    IF t = "app"
    THEN /\ op \in AppOps
         /\ op = "start" => host[a] = "stopped"
         /\ op = "stop" =>
              host[a] = "started" /\ ~Inside("streaming", StreamingOps, a)
         /\ op = "change_state" => host[a] = "started"
    ELSE /\ op \in StreamingOps
         /\ a = Watched
         /\ host[a] = "started"
         /\ ~Inside("app", {"stop"}, a)

Call(t) ==
    /\ ~Busy(t)
    /\ \E op \in AppOps \cup StreamingOps, a \in Adapters :
         /\ CanCall(t, op, a)
         /\ thread' = [thread EXCEPT ![t] = [op |-> op, a |-> a, pc |-> 1, polls |-> 0]]
    /\ UNCHANGED <<lock_owner, dataVars>>

\* Mutex::lock: the thread goes on once the mutex is free, and waits until then.
Lock(t) ==
    /\ At(t).do = "lock"
    /\ lock_owner[At(t).l] = "free"
    /\ lock_owner' = [lock_owner EXCEPT ![At(t).l] = t]
    /\ Advance(t)
    /\ UNCHANGED dataVars

\* The guard of a mutex is dropped before the handler returns.
Unlock(t) ==
    /\ At(t).do = "unlock"
    /\ lock_owner' = [lock_owner EXCEPT ![At(t).l] = "free"]
    /\ Advance(t)
    /\ UNCHANGED dataVars

\* *self.state.lock().unwrap() = Default::default()
ClearState(t) ==
    /\ At(t).do = "clear_state"
    /\ info' = [info EXCEPT ![thread[t].a] = StateAfterClear(@)]
    /\ Advance(t)
    /\ UNCHANGED <<lock_owner, settings, timestamp_data, receivers, start_pts,
                   host, last, active, run, prev_buffer>>

\* AudioInfo::from_caps: set_caps returns false when there is none.
ParseCaps(t) ==
    /\ At(t).do = "parse_caps"
    /\ \/ Advance(t)
       \/ LeaveEarly(t)
    /\ UNCHANGED <<lock_owner, dataVars>>

\* state.info = Some(info)
SetInfo(t) ==
    /\ At(t).do = "set_info"
    /\ info' = [info EXCEPT ![thread[t].a] = TRUE]
    /\ Advance(t)
    /\ UNCHANGED <<lock_owner, settings, timestamp_data, receivers, start_pts,
                   host, last, active, run, prev_buffer>>

\* create's match on state.info: NotNegotiated without it.
CheckInfo(t) ==
    /\ At(t).do = "check_info"
    /\ IF info[thread[t].a] THEN Advance(t) ELSE LeaveEarly(t)
    /\ UNCHANGED <<lock_owner, dataVars>>

\* settings.id_receiver = connect_ndi(...)
ConnectNdi(t) ==
    /\ At(t).do = "connect_ndi"
    /\ \E sdk_ok \in BOOLEAN :
         LET a == thread[t].a
             s == settings[a]
             c == Connect(receivers, s.ip, s.stream_name, sdk_ok)
         IN  /\ settings' = [settings EXCEPT ![a].id_receiver =
                               StartIdReceiver(s.id_receiver, c.id)]
             /\ receivers' = c.receivers
    /\ Advance(t)
    /\ UNCHANGED <<lock_owner, info, timestamp_data, start_pts, host, last,
                   active, run, prev_buffer>>

\* stop_ndi(..., settings.id_receiver)
StopNdi(t) ==
    /\ At(t).do = "stop_ndi"
    /\ receivers' = Disconnect(receivers, StopIdReceiver(settings[thread[t].a]))
    /\ Advance(t)
    /\ UNCHANGED <<lock_owner, settings, info, timestamp_data, start_pts, host,
                   last, active, run, prev_buffer>>

\* NDIlib_recv_capture_v2 in a handler's loop: the loop goes round again or
\* is left.
CaptureCall(t) ==
    /\ At(t).do = "capture"
    /\ \E again \in BOOLEAN :
         IF again
         THEN thread' = [thread EXCEPT ![t].polls = 1 - @]
         ELSE Advance(t)
    /\ UNCHANGED <<lock_owner, dataVars>>

\* The handler returns: the guards it still has are dropped, and the base
\* class has the element started after a start that returned true, stopped
\* after a stop.
Return(t) ==
    /\ Returning(t)
    /\ lock_owner' = [l \in Locks |->
                        IF lock_owner[l] = t THEN "free" ELSE lock_owner[l]]
    /\ host' = [host EXCEPT ![thread[t].a] =
                  CASE thread[t].op = "start" ->
                         IF StartResult(settings[thread[t].a].id_receiver)
                         THEN "started" ELSE "stopped"
                    [] thread[t].op = "stop" -> "stopped"
                    [] OTHER -> @]
    /\ thread' = [thread EXCEPT ![t] = Idle]
    /\ UNCHANGED <<settings, info, timestamp_data, receivers, start_pts, last,
                   active, run, prev_buffer>>

LockNext ==
    \E t \in Threads :
        \/ Call(t)
        \/ Lock(t)
        \/ Unlock(t)
        \/ ClearState(t)
        \/ ParseCaps(t)
        \/ SetInfo(t)
        \/ CheckInfo(t)
        \/ ConnectNdi(t)
        \/ StopNdi(t)
        \/ CaptureCall(t)
        \/ Return(t)

LockSpec == Init /\ [][LockNext]_vars

\* A step of thread t inside a handler.
Run(t) ==
    \/ Lock(t)
    \/ Unlock(t)
    \/ ClearState(t)
    \/ ParseCaps(t)
    \/ SetInfo(t)
    \/ CheckInfo(t)
    \/ ConnectNdi(t)
    \/ StopNdi(t)
    \/ CaptureCall(t)
    \/ Return(t)

\* LiveSpec: LockSpec with every thread that can go on again and again going
\* on: a thread is scheduled, a capture call returns within its timeout, and
\* a thread waiting for a mutex that is freed again and again gets it. What
\* the capture call returns is the source's choice, and when a handler is
\* called the caller's.
LiveSpec == LockSpec /\ \A t \in Threads : SF_vars(Run(t))

\* Thread t waits for a mutex that thread u holds.
WaitsFor(t, u) ==
    /\ At(t).do = "lock"
    /\ lock_owner[At(t).l] = u

\* C6: a thread that is at an SDK capture call, in create, in fixate or in the
\* state change to playing, does not hold the mutex of the receiver table.
C6_NoRegistryLockAcrossCapture ==
    \A t \in Threads : At(t).do = "capture" => lock_owner[RegistryLock] # t

\* C7: no two threads wait for each other's mutexes, whatever handlers they
\* are inside.
C7_NoCyclicWait ==
    \A t, u \in Threads : ~(t # u /\ WaitsFor(t, u) /\ WaitsFor(u, t))

\* ------------------------------------------------------------ shared receivers
\* The started elements attached to receiver id.
Attached(id) ==
    {a \in Adapters : host[a] = "started" /\ settings[a].id_receiver = id}

\* C1: whatever the order of the elements' starts and stops, a start for an
\* (ip, stream_name) that has an entry returns that entry's id and opens no
\* connection, no two entries are for the same (ip, stream_name), the entry of
\* a started element is in the table, and an entry is in the table exactly
\* while some started element is attached to it, counted by reference_count.
C1_SharedConnection ==
    /\ \A i, j \in DOMAIN receivers :
          (receivers[i].ip = receivers[j].ip
           /\ receivers[i].stream_name = receivers[j].stream_name) => i = j
    /\ \A a \in Adapters :
          host[a] = "started" => settings[a].id_receiver \in DOMAIN receivers
    /\ \A id \in DOMAIN receivers :
          /\ Attached(id) # {}
          /\ receivers[id].reference_count = Cardinality(Attached(id))
    /\ (last.op = "start" /\ last.existed) =>
          /\ ~last.opened
          /\ last.result
          /\ last.id \in DOMAIN receivers
          /\ receivers[last.id].reference_count >= 2

\* One of two elements that shared a receiver has stopped: the other is still
\* attached to it and the entry is still in the table.
C1_Witness ==
    /\ last.op = "stop"
    /\ last.id \in DOMAIN receivers
    /\ \E b \in Adapters \ {last.a} :
          host[b] = "started" /\ settings[b].id_receiver = last.id

\* ------------------------------------------------------------ create's loop
\* A step that is one turn of the watched element's create loop.
PollStep == active.op = "create" /\ last'.op = "create"

\* The watched element's loss threshold and loss count.
LossThreshold == settings[Watched].loss_threshold
LossCount == timestamp_data[Watched].count_frame_none

\* C2: with loss_threshold = N > 0, in a run of create calls that each end in a
\* none or error poll and that began with the loss count at 0, the calls
\* before the Nth return zero-length buffers and the Nth fails with the fatal
\* read error; after the failure no create call returns a buffer until the
\* element is started again.
C2_NthLossFails ==
    [][PollStep =>
        /\ (last'.frame.kind \in {"none", "error"} /\ LossThreshold > 0) =>
              LET nth == NthOfRun(run, LossCount)
              IN  /\ (1 <= nth /\ nth < LossThreshold) => last'.result = "empty"
                  /\ nth = LossThreshold => last'.result = "fatal"
        /\ run = FailedRun => last'.result # "buffer"]_vars

\* C3: with loss_threshold = N > 0, when N-1 create calls in a row, the first
\* with the loss count at 0, ended in a lost poll and the next call polls an
\* audio frame stamped after the epoch, the N-1 calls each returned a
\* zero-length buffer, this call returns a buffer with bytes in it, and the
\* loss count is 0 after it.
C3_BufferAfterLosses ==
    [][(/\ PollStep
        /\ last'.frame.kind = "audio"
        /\ last'.frame.timestamp > active.time
        /\ LossThreshold > 0
        /\ run # FailedRun
        /\ run.len = LossThreshold - 1
        /\ (run.len = 0 => LossCount = 0))
       => /\ run.empties = LossThreshold - 1
          /\ last'.result = "buffer"
          /\ last'.buffer.kind = "real"
          /\ last'.buffer.size > 0
          /\ timestamp_data'[Watched].count_frame_none = 0]_vars

\* A buffer returned right after a run of loss_threshold - 1 >= 1 lost polls.
C3_Witness ==
    /\ last.op = "create"
    /\ last.result = "buffer"
    /\ LossThreshold >= 2
    /\ last.run.len = LossThreshold - 1
    /\ last.run.empties = LossThreshold - 1
    /\ LossCount = 0

\* C4: with loss_threshold = 0, a turn of create that polls a none frame
\* returns a zero-length buffer, never the fatal error, whatever came before
\* it, and leaves the loss count and the offset as they were.
C4_ZeroThresholdNeverFails ==
    [][(PollStep /\ LossThreshold = 0 /\ last'.frame.kind = "none")
       => /\ last'.result = "empty"
          /\ last'.buffer = NoBuffer
          /\ timestamp_data' = timestamp_data]_vars

\* A none frame polled with loss_threshold = 0 right after another one.
C4_Witness ==
    /\ last.op = "create"
    /\ last.result = "empty"
    /\ last.frame.kind = "none"
    /\ LossThreshold = 0
    /\ last.run.len >= 1

C8_EpochNeverRaised ==
    (last.op = "change_state" /\ last.result = "set" /\ last.before # 0)
        => receivers[last.id].initial_timestamp <= last.before

\* ------------------------------------------------------------ offsets
\* C9: between start and stop, a real buffer begins at the offset where the
\* real buffer before it ended and spans its frame's sample count, the offset
\* then stands at its end, and a turn that returns no real buffer leaves the
\* offset as it was.
C9_OffsetsChain ==
    [][PollStep =>
        IF last'.result = "buffer"
        THEN /\ last'.buffer.offset_end - last'.buffer.offset
                  = last'.frame.no_samples
             /\ last'.buffer.offset = timestamp_data[Watched].offset
             /\ timestamp_data'[Watched].offset = last'.buffer.offset_end
             /\ prev_buffer.kind = "real"
                  => last'.buffer.offset = prev_buffer.offset_end
        ELSE timestamp_data'[Watched].offset = timestamp_data[Watched].offset]_vars

\* A second real buffer since start, with a zero-length buffer between the two.
C9_Witness ==
    /\ last.op = "create"
    /\ last.result = "buffer"
    /\ last.prev.kind = "real"
    /\ last.run.empties >= 1
    /\ last.buffer.offset = last.prev.offset_end
    /\ last.buffer.offset > 0

\* ------------------------------------------------------------ skipped frames
\* C10: an audio frame polled by create that is stamped at or before the
\* epoch gives no buffer and no error, leaves the offset and the loss count
\* as they were, and the same create call polls again.
C10_PreEpochFrameSkipped ==
    [][(/\ PollStep
        /\ last'.frame.kind = "audio"
        /\ last'.frame.timestamp <= active.time)
       => /\ last'.result = "polling"
          /\ last'.buffer = NoBuffer
          /\ timestamp_data' = timestamp_data
          /\ active'.op = "create"
          /\ active'.a = active.a
          /\ active'.time = active.time]_vars

\* The create call is still in its loop after an audio frame stamped before a
\* non-zero epoch.
C10_Witness ==
    /\ last.op = "create"
    /\ last.result = "polling"
    /\ "frame" \in DOMAIN last
    /\ active.op = "create"
    /\ last.frame.kind = "audio"
    /\ active.time > 0
    /\ last.frame.timestamp < active.time

\* ------------------------------------------------------------ repeated stop
\* C11: stop returns true, and a stop that follows a stop of the same element
\* leaves the receiver table and the element's settings and state as the
\* first one left them.
C11_StopIdempotent ==
    [][(last'.op = "stop" =>
          last'.result = TRUE)
       /\ ((last.op = "stop" /\ last'.op = "stop" /\ last'.a = last.a
            /\ host[last.a] = "stopped")
           => /\ receivers' = receivers
              /\ settings' = settings
              /\ info' = info
              /\ host' = host)]_vars

\* ------------------------------------------------------------ create without caps
\* C12: start and stop leave the element without State.info, and a create
\* call on an element without State.info returns NotNegotiated without
\* entering its capture loop, with timestamp_data, the receiver table and
\* start_pts as they were.
C12_NotNegotiated ==
    [][/\ (last'.op \in {"start", "stop"}) => ~info'[last'.a]
       /\ (last'.op = "create" /\ active.op # "create" /\ ~info[last'.a])
           => /\ last'.result = "not_negotiated"
              /\ active' = active
              /\ timestamp_data' = timestamp_data
              /\ receivers' = receivers
              /\ start_pts' = start_pts]_vars

\* create returns NotNegotiated on an element that has emitted buffers: its
\* caps were set and a stop and start have cleared them since.
C12_Witness ==
    /\ last.op = "create"
    /\ last.result = "not_negotiated"
    /\ ~info[Watched]
    /\ timestamp_data[Watched].offset > 0

\* ------------------------------------------------------------ settings while connected
\* What a create call of the watched element would return for a frame, were
\* loss_threshold the given one.
WouldReturn(frame, loss_threshold) ==
    CreateResult(
        PollOutcome(frame.kind, Capture(DefaultAudioFrame, frame),
                    receivers[settings[Watched].id_receiver].initial_timestamp,
                    loss_threshold, LossCount))

\* C13: a set_property on a started element changes nothing of what create
\* does before the next start: for every frame, create returns after the
\* change what it would have returned before it, so that from one start to
\* the next create goes by the loss_threshold of that start.
C13_SettingsFrozenUntilStart ==
    [][(last'.op = "set_property" /\ last'.a = Watched
        /\ host[Watched] = "started")
       => \A frame \in Frames :
            WouldReturn(frame, settings'[Watched].loss_threshold)
              = WouldReturn(frame, settings[Watched].loss_threshold)]_vars

\* ------------------------------------------------------------ start's result
\* C14: start returns false when connect_ndi returned 0 and true when it
\* returned another id; either way settings.id_receiver is the id returned
\* and the element is left without State.info, and a create call on an
\* element whose id_receiver is 0 returns NotNegotiated, not a buffer.
C14_StartResult ==
    [][/\ last'.op = "start"
           => /\ last'.result = (last'.id # NoReceiver)
              /\ settings'[last'.a].id_receiver = last'.id
              /\ ~info'[last'.a]
              /\ host'[last'.a] = IF last'.result THEN "started" ELSE "stopped"
       /\ (last'.op = "create" /\ active.op # "create"
           /\ settings[last'.a].id_receiver = NoReceiver)
           => /\ last'.result = "not_negotiated"
              /\ active' = active]_vars

\* A start that failed, of an element that had a receiver before, beside an
\* element that is connected.
C14_Witness ==
    /\ last.op = "start"
    /\ ~last.result
    /\ last.id = NoReceiver
    /\ settings[last.a].id_receiver = NoReceiver
    /\ host[last.a] = "stopped"
    /\ receivers # <<>>

\* ------------------------------------------------------------ error frames
\* C15: with loss_threshold = 0, a turn of create that polls an error frame
\* returns a zero-length buffer, as it does for a none frame, and does not
\* fail.
C15_ZeroThresholdErrorFrame ==
    [][(PollStep /\ LossThreshold = 0 /\ last'.frame.kind = "error")
       => last'.result = "empty"]_vars

\* ------------------------------------------------------------ stop is served
\* C16: a stop that has been called returns in the end, whatever the capture
\* calls of the other handlers return.
C16_StopEventuallyServed ==
    \A a \in Adapters : Inside("app", {"stop"}, a) ~> ~Busy("app")

\* ------------------------------------------------------------ unset epoch
\* C17: a turn of create that read initial_timestamp = 0 returns no real
\* buffer: an audio frame it polls is skipped whatever its timestamp.
C17_NoBufferBeforeEpoch ==
    [][(PollStep /\ active.time = 0)
       => /\ last'.result # "buffer"
          /\ last'.frame.kind = "audio" => last'.result = "polling"]_vars

\* ------------------------------------------------------------ other frame kinds
\* C18: a turn of create that polls a frame that is not audio, none or error
\* returns nothing, leaves timestamp_data as it was, and the same call polls
\* again, also when an audio frame skipped earlier in the call is still in
\* audio_frame.
C18_OtherKindsFiltered ==
    [][(PollStep /\ last'.frame.kind \notin {"audio", "none", "error"})
       => /\ last'.result = "polling"
          /\ last'.buffer = NoBuffer
          /\ timestamp_data' = timestamp_data
          /\ prev_buffer' = prev_buffer
          /\ active'.op = "create"
          /\ active'.a = active.a
          /\ active'.audio_frame = active.audio_frame]_vars

\* A video or metadata frame polled by a create call that has skipped an audio
\* frame with samples in it.
C18_Witness ==
    /\ last.op = "create"
    /\ last.result = "polling"
    /\ "frame" \in DOMAIN last
    /\ last.frame.kind \in {"video", "metadata"}
    /\ active.op = "create"
    /\ active.audio_frame.no_samples > 0

\* ------------------------------------------------------------ pts
\* C19 as the specification has it: the pts of a real buffer is the frame's
\* timestamp less the epoch the call read, in nanoseconds, and nothing more.
C19_PtsFromEpochAlone ==
    [][(PollStep /\ last'.result = "buffer")
       => last'.buffer.pts
            = (last'.frame.timestamp - active.time) * TicksToNs]_vars

\* C19 as the code has it: the pts of a real buffer is the frame's timestamp
\* less the epoch the call read, in nanoseconds, plus ndi_struct.start_pts,
\* which the call leaves as it is unless it is 0.
C19_PtsFromEpochAndStart ==
    [][(PollStep /\ last'.result = "buffer")
       => /\ last'.buffer.pts
               = (last'.frame.timestamp - active.time) * TicksToNs + start_pts'
          /\ start_pts # 0 => start_pts' = start_pts]_vars

\* A real buffer stamped from a non-zero epoch while start_pts is not 0.
C19_Witness ==
    /\ last.op = "create"
    /\ last.result = "buffer"
    /\ last.buffer.time > 0
    /\ start_pts > 0
    /\ last.buffer.pts
         = (last.frame.timestamp - last.buffer.time) * TicksToNs + start_pts

\* ------------------------------------------------------------ fixate
\* q = floor(n * SECOND / den), n > 0: the remainder n * SECOND - q * den,
\* taken in parts that stay small, is in 0..den-1.
IsFloorOfSeconds(q, n, den) ==
    LET remainder == n * (SECOND - (q \div n) * den) - (q % n) * den
    IN  q >= 0 /\ 0 <= remainder /\ remainder < den

\* A step that is one capture call of the watched element's fixate.
FixateStep == active.op = "fixate" /\ last'.op = "fixate"

\* C20: a capture call of fixate that returns a frame that is not audio is
\* followed by another one; the one that returns an audio frame ends fixate,
\* with the rate and the channels of that frame fixed in the caps and
\* settings.latency = floor(no_samples * SECOND / sample_rate); no capture
\* call of fixate changes the receiver table, timestamp_data, State or
\* start_pts.
C20_FixateFromAudioFrame ==
    [][FixateStep =>
        /\ IF last'.frame.kind = "audio"
           THEN /\ last'.result = "fixed"
                /\ active' = NoActive
                /\ last'.rate = last'.frame.sample_rate
                /\ last'.channels = last'.frame.no_channels
                /\ IsFloorOfSeconds(settings'[Watched].latency,
                                    last'.frame.no_samples,
                                    last'.frame.sample_rate)
           ELSE /\ last'.result = "polling"
                /\ active'.op = "fixate"
                /\ settings' = settings
        /\ receivers' = receivers
        /\ timestamp_data' = timestamp_data
        /\ info' = info
        /\ start_pts' = start_pts]_vars

\* fixate has ended on a mono frame of two samples at a rate that does not
\* divide two seconds.
C20_Witness ==
    /\ last.op = "fixate"
    /\ last.result = "fixed"
    /\ last.frame.no_samples = 2
    /\ last.frame.sample_rate = 7
    /\ last.channels = 1
    /\ settings[Watched].latency = 285714285

\* ------------------------------------------------------------ restarts
\* A step that is a start or a stop.
RestartStep == last'.op \in {"start", "stop"}

\* The loss count of every element is within its loss threshold.
CountWithinThreshold ==
    \A a \in Adapters :
        timestamp_data[a].count_frame_none <= settings[a].loss_threshold

\* C21: a start and a stop leave timestamp_data (offset, count_frame_none) of
\* every element as they find it; no step lowers an offset; the loss count is
\* within loss_threshold after construction, and a step that finds it so and
\* leaves the loss_threshold of an element alone leaves it so for that element.
C21_CountersAcrossRestart ==
    /\ CountWithinThreshold
    /\ [][/\ RestartStep => timestamp_data' = timestamp_data
          /\ \A a \in Adapters :
                /\ timestamp_data'[a].offset >= timestamp_data[a].offset
                /\ (/\ timestamp_data[a].count_frame_none
                         <= settings[a].loss_threshold
                    /\ settings'[a].loss_threshold = settings[a].loss_threshold)
                   => timestamp_data'[a].count_frame_none
                        <= settings'[a].loss_threshold]_vars

\* The watched element has been started again with an offset and a loss count
\* of an earlier run, the count at the threshold.
C21_Witness ==
    /\ last.op = "start" /\ last.a = Watched /\ last.result
    /\ timestamp_data[Watched].offset > 0
    /\ timestamp_data[Watched].count_frame_none > 0
    /\ timestamp_data[Watched].count_frame_none
         = settings[Watched].loss_threshold

====
